---- MODULE Spec2Model ----
(***************************************************************************)
(* Model of dymo-bluetooth: the Canvas bit buffer, the directive encoder,  *)
(* the payload framer (printer.py) and the print session of                *)
(* Printer.print (bluetooth.py).                                           *)
(***************************************************************************)
EXTENDS Integers, Sequences, FiniteSets, TLC

VARIABLES
    buffer,          \* Canvas.buffer: the bytes held by the BytesIO
    last,            \* the last canvas operation applied and its arguments
    ops,             \* the number of canvas operations applied so far
    used,            \* the names of the canvas operations applied so far
    touched,         \* the pixels <<x, y>> that set_pixel was called on so far
    prev,            \* the bytes of the canvas before the last operation
    pl,              \* create_payload generator: data, is_print, position, yielded chunks
    dec,             \* one call of Result.from_bytes: its data and what it gave
    is_connected,    \* BleakClient.is_connected
    pc,              \* position of the Printer.print coroutine
    future,          \* the asyncio.Future of Printer.print
    should_discard,  \* the closure flag of reply_get
    subscribed,      \* a reply_get handler is registered with start_notify
    pending,         \* chunks of command_print(canvas) not yet written
    written,         \* chunks written with write_gatt_char, in order
    delivered,       \* reply notifications handed to reply_get, in order
    handled,         \* what reply_get did with each notification, in order
    outcome          \* what the caller of print observed

vars == <<buffer, last, ops, used, touched, prev, pl, dec, is_connected, pc, future, should_discard,
          subscribed, pending, written, delivered, handled, outcome>>

canvasVars == <<buffer, last, ops, used, touched, prev>>
sessionVars == <<is_connected, pc, future, should_discard, subscribed,
                 pending, written, delivered, handled, outcome>>

(***************************************************************************)
(* Bytes and BytesIO.                                                      *)
(***************************************************************************)
Pow2(n) == IF n = 0 THEN 1 ELSE IF n = 1 THEN 2 ELSE IF n = 2 THEN 4
           ELSE IF n = 3 THEN 8 ELSE IF n = 4 THEN 16 ELSE IF n = 5 THEN 32
           ELSE IF n = 6 THEN 64 ELSE 128

\* value & (1 << b) != 0
BitIsSet(value, b) == (value \div Pow2(b)) % 2 = 1

\* value | (1 << b)
OrBit(value, b) == IF BitIsSet(value, b) THEN value ELSE value + Pow2(b)

\* value & ~(1 << b)
AndNotBit(value, b) == IF BitIsSet(value, b) THEN value - Pow2(b) ELSE value

\* bytes(n): n zero bytes
Zeros(n) == [i \in 1..n |-> 0]

\* BytesIO: seek(pos); read(1)
ReadAt(buf, pos) == IF pos < Len(buf) THEN <<buf[pos + 1]>> ELSE <<>>

\* BytesIO: seek(pos); write(data).  A write past the end fills the gap with
\* zero bytes; a write of no bytes changes nothing.
WriteAt(buf, pos, data) ==
    IF Len(data) = 0 THEN buf
    ELSE LET end == pos + Len(data)
             n   == IF end > Len(buf) THEN end ELSE Len(buf)
         IN [i \in 1..n |->
                IF i > pos /\ i <= end THEN data[i - pos]
                ELSE IF i <= Len(buf) THEN buf[i]
                ELSE 0]

(***************************************************************************)
(* Canvas.                                                                 *)
(***************************************************************************)
BYTES_PER_LINE == 4
MAX_LENGTH == 1024

\* Canvas._get_fixed_pixels / Canvas.height
Height == BYTES_PER_LINE * 8

\* Canvas._raise_if_out_bounds: TRUE when no ValueError is raised
InBounds(x, y) ==
    /\ ~((x < 0) \/ (y < 0))
    /\ ~(y >= BYTES_PER_LINE * 8)
    /\ ~(x >= MAX_LENGTH * 8)

\* x_offset + y_offset of get_pixel and set_pixel
ByteOffset(x, y) == x * BYTES_PER_LINE + (BYTES_PER_LINE - 1 - (y \div 8))

GetPixel(buf, x, y) ==
    LET curr  == ReadAt(buf, ByteOffset(x, y))
        value == IF curr = <<>> THEN 0 ELSE curr[1]
    IN BitIsSet(value, 7 - (y % 8))

\* SetPixel that leaves the bit as it is when color is false
SetPixelNoClear(buf, x, y, color) ==
    LET off   == ByteOffset(x, y)
        curr  == ReadAt(buf, off)
        value == IF curr = <<>> THEN 0 ELSE curr[1]
        new   == IF color THEN OrBit(value, 7 - (y % 8)) ELSE value
        pos   == (off + Len(curr)) + (IF curr = <<>> THEN 0 ELSE -1)
    IN WriteAt(buf, pos, <<new>>)

\* SetPixel that writes nothing for a blank pixel past the end of the buffer
SetPixelSkipsBlank(buf, x, y, color) ==
    LET off   == ByteOffset(x, y)
        curr  == ReadAt(buf, off)
        value == IF curr = <<>> THEN 0 ELSE curr[1]
        new   == IF color THEN OrBit(value, 7 - (y % 8))
                 ELSE AndNotBit(value, 7 - (y % 8))
        pos   == (off + Len(curr)) + (IF curr = <<>> THEN 0 ELSE -1)
    IN IF ~color /\ curr = <<>> THEN buf ELSE WriteAt(buf, pos, <<new>>)

SetPixel(buf, x, y, color) ==
    LET off   == ByteOffset(x, y)
        curr  == ReadAt(buf, off)
        value == IF curr = <<>> THEN 0 ELSE curr[1]
        new   == IF color THEN OrBit(value, 7 - (y % 8))
                 ELSE AndNotBit(value, 7 - (y % 8))
        \* position after read(1), then seek(0 if not curr else -1, 1)
        pos   == (off + Len(curr)) + (IF curr = <<>> THEN 0 ELSE -1)
    IN WriteAt(buf, pos, <<new>>)

\* Canvas._get_byte_size / Canvas.__len__
ByteSize(buf) == Len(buf)

\* Canvas._get_unfixed_pixels / Canvas.width: math.ceil(size / BYTES_PER_LINE)
Width(buf) == (ByteSize(buf) + BYTES_PER_LINE - 1) \div BYTES_PER_LINE

\* Canvas.get_image
GetImage(buf) == buf \o Zeros(Len(buf) % BYTES_PER_LINE)

\* Canvas.__eq__
CanvasEq(a, b) == GetImage(a) = GetImage(b)

\* Canvas.empty
Empty(buf) == WriteAt(<<>>, ByteSize(buf), <<0>>)

\* Canvas.copy
Copy(buf) == WriteAt(<<>>, 0, buf)

\* Canvas.clear
Clear(buf) == <<>>

\* Canvas.revert: byt[0] ^ 0xFF for every byte
Revert(buf) == [i \in 1..Len(buf) |-> 255 - buf[i]]

\* Canvas.fill
Fill(buf, to_left, to_right) ==
    LET a == WriteAt(<<>>, 0, Zeros(to_left * BYTES_PER_LINE))
        b == WriteAt(a, Len(a), GetImage(buf))
    IN WriteAt(b, Len(b), Zeros(to_right * BYTES_PER_LINE))

\* Canvas.pad: side = math.ceil((until - width) / 2)
Pad(buf, until) ==
    IF Width(buf) >= until THEN Copy(buf)
    ELSE LET side == (until - Width(buf) + 1) \div 2
         IN Fill(buf, side, side)

\* Canvas.stretch, innermost loop: for i in range(factor).  In the three
\* loops the test on "next" changes nothing: both branches continue with
\* the canvas after the step; it makes TLC compute that canvas before the
\* next iteration instead of nesting the pending steps.
RECURSIVE StretchPixel(_, _, _, _, _, _)
StretchPixel(canvas, factor, x, y, pixel, i) ==
    IF i >= factor THEN canvas
    ELSE LET next == SetPixel(canvas, (x * factor) + i, y, pixel)
         IN IF next = canvas
            THEN StretchPixel(canvas, factor, x, y, pixel, i + 1)
            ELSE StretchPixel(next, factor, x, y, pixel, i + 1)

\* Canvas.stretch, middle loop: for y in range(self.height)
RECURSIVE StretchColumn(_, _, _, _, _)
StretchColumn(src, canvas, factor, x, y) ==
    IF y >= Height THEN canvas
    ELSE LET next == StretchPixel(canvas, factor, x, y, GetPixel(src, x, y), 0)
         IN IF next = canvas
            THEN StretchColumn(src, canvas, factor, x, y + 1)
            ELSE StretchColumn(src, next, factor, x, y + 1)

\* Canvas.stretch, outer loop: for x in range(self.width)
RECURSIVE StretchLoop(_, _, _, _)
StretchLoop(src, canvas, factor, x) ==
    IF x >= Width(src) THEN canvas
    ELSE LET next == StretchColumn(src, canvas, factor, x, 0)
         IN IF next = canvas
            THEN StretchLoop(src, canvas, factor, x + 1)
            ELSE StretchLoop(src, next, factor, x + 1)

Stretch(buf, factor) == StretchLoop(buf, <<>>, factor, 0)

(***************************************************************************)
(* Result.                                                                 *)
(***************************************************************************)
SUCCESS == 0
FAILED == 2
SUCCESS_LOW_BATTERY == 3
FAILED_CANCEL == 4
FAILED_LOW_BATTERY == 6
FAILED_NO_CASETTE == 7

\* the values of the members of the Result enumeration
ResultValues == {SUCCESS, FAILED, SUCCESS_LOW_BATTERY, FAILED_CANCEL,
                 FAILED_LOW_BATTERY, FAILED_NO_CASETTE}

Returned(v) == [ok |-> TRUE, value |-> v, error |-> "none"]
Raised(e) == [ok |-> FALSE, value |-> -1, error |-> e]

\* FromBytes without the folding of code 5 into FAILED
FromBytesNoFold5(data) ==
    IF Len(data) < 1 THEN Raised("IndexError")
    ELSE IF data[1] # 27 THEN Raised("ValueError")
    ELSE IF Len(data) < 2 THEN Raised("IndexError")
    ELSE IF data[2] # 82 THEN Raised("ValueError")
    ELSE IF Len(data) < 3 THEN Raised("IndexError")
    ELSE IF data[3] = 1 THEN Returned(SUCCESS)
    ELSE IF data[3] \in ResultValues THEN Returned(data[3])
    ELSE Raised("ValueError")

\* Result.from_bytes; data[k] of the source is data[k + 1] here
FromBytes(data) ==
    IF Len(data) < 1 THEN Raised("IndexError")
    ELSE IF data[1] # 27 THEN Raised("ValueError")
    ELSE IF Len(data) < 2 THEN Raised("IndexError")
    ELSE IF data[2] # 82 THEN Raised("ValueError")
    ELSE IF Len(data) < 3 THEN Raised("IndexError")
    ELSE IF data[3] = 5 THEN Returned(FAILED)
    ELSE IF data[3] = 1 THEN Returned(SUCCESS)
    ELSE IF data[3] \in ResultValues THEN Returned(data[3])
    ELSE Raised("ValueError")

(***************************************************************************)
(* DirectiveBuilder.                                                       *)
(***************************************************************************)
\* int.to_bytes(4, "little")
ToBytes4(n) == <<n % 256, (n \div 256) % 256, (n \div 65536) % 256,
                 (n \div 16777216) % 256>>

\* DirectiveCommand.to_bytes: 27 and the code of the command's letter
CommandBytes(letter) == <<27, letter>>

DirectiveStart == CommandBytes(115) \o <<154, 2, 0, 0>>
DirectiveFormFeed == CommandBytes(69)
DirectiveStatus == CommandBytes(65)
DirectiveEnd == CommandBytes(81)

DirectivePrint(data, image_width, image_height, bits_per_pixel, alignment) ==
    CommandBytes(68) \o <<bits_per_pixel, alignment>>
        \o ToBytes4(image_width) \o ToBytes4(image_height) \o data

(***************************************************************************)
(* create_payload.                                                         *)
(***************************************************************************)
CHUNK_SIZE == 500
MAGIC == <<18, 52>>

RECURSIVE SumBytes(_)
SumBytes(s) == IF s = <<>> THEN 0 ELSE s[1] + SumBytes(Tail(s))

\* PayloadHeader whose checksum is the whole sum, not its low byte
PayloadHeaderWholeSum(data) ==
    LET header == <<255, 240>> \o MAGIC \o ToBytes4(Len(data))
    IN Append(header, SumBytes(header))

\* the 9 bytes of the header: preamble, flags, MAGIC, length, checksum
PayloadHeader(data) ==
    LET header == <<255, 240>> \o MAGIC \o ToBytes4(Len(data))
    IN Append(header, SumBytes(header) % 256)

\* len(range(0, n, CHUNK_SIZE)): the number of iterations of the chunk loop
RangeLen(n) == (n + CHUNK_SIZE - 1) \div CHUNK_SIZE

\* ChunkIndex without the skipped value
ChunkIndexNoSkip(index) == index

\* chunk_index = index + 1 if index >= 27 else index
ChunkIndex(index) == IF index >= 27 THEN index + 1 ELSE index

\* data[step: step + CHUNK_SIZE]
Slice(data, step) ==
    SubSeq(data, step + 1,
           IF step + CHUNK_SIZE < Len(data) THEN step + CHUNK_SIZE ELSE Len(data))

\* the body of the chunk loop at iteration index (step = index * CHUNK_SIZE)
PayloadChunk(data, index) ==
    LET step == index * CHUNK_SIZE
        current_chunk == <<ChunkIndex(index)>> \o Slice(data, step)
    IN IF (step + CHUNK_SIZE) >= Len(data) THEN current_chunk \o MAGIC
       ELSE current_chunk

\* everything the generator yields, in order
CreatePayload(data, is_print) ==
    IF ~is_print THEN <<PayloadHeader(data) \o data>>
    ELSE <<PayloadHeader(data)>>
            \o [i \in 1..RangeLen(Len(data)) |-> PayloadChunk(data, i - 1)]

\* the payload command_print frames: start, print, form feed, status, end
PrintDirectives(buf) ==
    DirectiveStart
        \o DirectivePrint(GetImage(buf), Width(buf), Height, 1, 2)
        \o DirectiveFormFeed \o DirectiveStatus \o DirectiveEnd

CommandPrint(buf) == CreatePayload(PrintDirectives(buf), TRUE)

(***************************************************************************)
(* Bounds of the model.                                                    *)
(***************************************************************************)
\* reply notifications the transport delivers in one behaviour
MaxNotifs == 3

\* result codes carried by the well-formed replies that are delivered
ReplyCodes == {0, 1, 2, 5, 9}

\* replies that are too short or carry the wrong leading bytes
MalformedReplies == {<<>>, <<27, 82>>, <<26, 82, 0>>, <<27, 83, 0>>}

Replies == {<<27, 82, c>> : c \in ReplyCodes} \cup MalformedReplies

\* the canvases handed to Printer.print: blank, one partly written column,
\* and one wide enough for command_print to need two indexed chunks
SessionCanvases == {<<>>, SetPixel(<<>>, 0, 31, TRUE), SetPixel(<<>>, 119, 0, TRUE)}

(***************************************************************************)
(* Printer: connect, disconnect and the print coroutine.                   *)
(***************************************************************************)
NoFuture == [state |-> "none", result |-> -1]
NoOutcome == [kind |-> "none", value |-> -1, error |-> "none"]

InitSession ==
    /\ is_connected = FALSE
    /\ pc = "idle"
    /\ future = NoFuture
    /\ should_discard = FALSE
    /\ subscribed = FALSE
    /\ pending = <<>>
    /\ written = <<>>
    /\ delivered = <<>>
    /\ handled = <<>>
    /\ outcome = NoOutcome

\* Printer.connect
Connect ==
    /\ pc = "idle"
    /\ ~is_connected
    /\ is_connected' = TRUE
    /\ UNCHANGED <<pc, future, should_discard, subscribed, pending, written,
                   delivered, handled, outcome>>

\* Printer.disconnect
Disconnect ==
    /\ pc = "idle"
    /\ is_connected
    /\ is_connected' = FALSE
    /\ UNCHANGED <<pc, future, should_discard, subscribed, pending, written,
                   delivered, handled, outcome>>

\* Printer.print up to its first await: the connection check, the future,
\* the flag, and the generator of command_print(canvas)
PrintCall(canvas) ==
    /\ pc = "idle"
    /\ IF ~is_connected
       THEN /\ pc' = "raised"
            /\ outcome' = [kind |-> "raised", value |-> -1, error |-> "NotConnected"]
            /\ UNCHANGED <<future, should_discard, pending>>
       ELSE /\ pc' = "start_notify"
            /\ future' = [state |-> "pending", result |-> -1]
            /\ should_discard' = FALSE
            /\ pending' = CommandPrint(canvas)
            /\ UNCHANGED outcome
    /\ UNCHANGED <<is_connected, subscribed, written, delivered, handled>>

\* StartNotify with the handler never registered
StartNotifyNoHandler ==
    /\ pc = "start_notify"
    /\ pc' = "write"
    /\ UNCHANGED <<is_connected, future, should_discard, subscribed, pending,
                   written, delivered, handled, outcome>>

\* await self._client.start_notify(print_reply, reply_get) completes
StartNotify ==
    /\ pc = "start_notify"
    /\ subscribed' = TRUE
    /\ pc' = "write"
    /\ UNCHANGED <<is_connected, future, should_discard, pending, written,
                   delivered, handled, outcome>>

\* await self._client.write_gatt_char(print_request, chunk, True) completes;
\* after the last chunk the coroutine reaches "return await future", which
\* returns at once when the future is already done
WriteChunk ==
    /\ pc = "write"
    /\ pending # <<>>
    /\ written' = Append(written, Head(pending))
    /\ pending' = Tail(pending)
    /\ IF Tail(pending) # <<>>
       THEN UNCHANGED <<pc, outcome>>
       ELSE IF future.state = "done"
            THEN /\ pc' = "returned"
                 /\ outcome' = [kind |-> "returned", value |-> future.result, error |-> "none"]
            ELSE /\ pc' = "await_future"
                 /\ UNCHANGED outcome
    /\ UNCHANGED <<is_connected, future, should_discard, subscribed,
                   delivered, handled>>

\* start_notify or write_gatt_char raises: the error leaves print
TransportFails ==
    /\ pc \in {"start_notify", "write"}
    /\ pc' = "raised"
    /\ outcome' = [kind |-> "raised", value |-> -1, error |-> "TransportFailure"]
    /\ UNCHANGED <<is_connected, future, should_discard, subscribed, pending,
                   written, delivered, handled>>

\* what reply_get does with one notification
ReplyGet(data) ==
    LET result == FromBytes(data)
    IN IF ~result.ok THEN result.error
       ELSE IF (~should_discard) /\ (result.value \in {0, 1}) THEN "discarded"
       ELSE IF future.state = "pending" THEN "set_result"
       ELSE "InvalidStateError"

\* the transport delivers a reply notification and reply_get runs on it
Notify(data) ==
    /\ subscribed
    /\ Len(delivered) < MaxNotifs
    /\ delivered' = Append(delivered, data)
    /\ handled' = Append(handled, ReplyGet(data))
    /\ should_discard' = (should_discard \/ ReplyGet(data) = "discarded")
    /\ future' = IF ReplyGet(data) = "set_result"
                 THEN [state |-> "done", result |-> FromBytes(data).value]
                 ELSE future
    /\ UNCHANGED <<is_connected, pc, subscribed, pending, written, outcome>>

\* "return await future" resumes once the future is done
Return ==
    /\ pc = "await_future"
    /\ future.state = "done"
    /\ pc' = "returned"
    /\ outcome' = [kind |-> "returned", value |-> future.result, error |-> "none"]
    /\ UNCHANGED <<is_connected, future, should_discard, subscribed, pending,
                   written, delivered, handled>>

\* the caller abandons print at one of its awaits; a future that is being
\* awaited is cancelled with the coroutine
Cancel ==
    /\ pc \in {"start_notify", "write", "await_future"}
    /\ pc' = "cancelled"
    /\ outcome' = [kind |-> "cancelled", value |-> -1, error |-> "CancelledError"]
    /\ future' = IF pc = "await_future" /\ future.state = "pending"
                 THEN [state |-> "cancelled", result |-> -1]
                 ELSE future
    /\ UNCHANGED <<is_connected, should_discard, subscribed, pending, written,
                   delivered, handled>>

(***************************************************************************)
(* Canvas operations as actions on one canvas; a transform replaces the    *)
(* canvas by the canvas it returns (canvas = canvas.stretch(...)).         *)
(***************************************************************************)
\* columns that set_pixel addresses: x in 0..MaxX-1
MaxX == 2

\* operations whose canvas would hold more bytes than this are not taken
MaxBytes == 8

\* canvas operations applied in one behaviour
MaxOps == 3

\* rows that set_pixel addresses: one in each of the four bytes of a column
Rows == {0, 15, 16, 31}

StretchFactors == {1, 2}
FillSides == {0, 1}

Op(name, a, b, color) == [op |-> name, a |-> a, b |-> b, color |-> color]

InitCanvasVars ==
    /\ buffer = <<>>
    /\ last = Op("init", 0, 0, FALSE)
    /\ ops = 0
    /\ used = {}
    /\ touched = {}
    /\ prev = <<>>

Apply(result, op) ==
    /\ ops < MaxOps
    /\ Len(result) <= MaxBytes
    /\ buffer' = result
    /\ ops' = ops + 1
    /\ used' = used \cup {op.op}
    /\ last' = op
    /\ touched' = IF op.op = "set_pixel" THEN touched \cup {<<op.a, op.b>>} ELSE touched
    /\ prev' = buffer

DoSetPixel(x, y, color) ==
    /\ InBounds(x, y)
    /\ Apply(SetPixel(buffer, x, y, color), Op("set_pixel", x, y, color))

\* Canvas.get_pixel: the seek and the read(1) leave the bytes as they are,
\* also past the end of the buffer; the value read is kept in last.color
DoGetPixel(x, y) ==
    /\ InBounds(x, y)
    /\ Apply(buffer, Op("get_pixel", x, y, GetPixel(buffer, x, y)))

DoEmpty == Apply(Empty(buffer), Op("empty", 0, 0, FALSE))

DoClear == Apply(Clear(buffer), Op("clear", 0, 0, FALSE))

DoCopy == Apply(Copy(buffer), Op("copy", 0, 0, FALSE))

DoRevert == Apply(Revert(buffer), Op("revert", 0, 0, FALSE))

DoStretch(factor) ==
    /\ ~(factor < 1)
    /\ Apply(Stretch(buffer, factor), Op("stretch", factor, 0, FALSE))

DoFill(to_left, to_right) ==
    Apply(Fill(buffer, to_left, to_right), Op("fill", to_left, to_right, FALSE))

DoPad(until) == Apply(Pad(buffer, until), Op("pad", until, 0, FALSE))

(***************************************************************************)
(* create_payload as the generator it is: one action per next().           *)
(***************************************************************************)
\* test data of length n: byte i is i * seed mod 256
MaxSeed == 2

PayloadLengths == {0, 1, 2, 499, 500, 501, 999, 1000, 1001, 13500, 13501, 14001}

TestData(n, seed) == [i \in 1..n |-> (i * seed) % 256]

\* the widest canvas set_pixel accepts: x = MAX_LENGTH * 8 - 1
WidestCanvas == SetPixel(<<>>, (MAX_LENGTH * 8) - 1, 0, TRUE)

\* the directive streams command_print hands to create_payload
PrintInputs == {PrintDirectives(c) : c \in SessionCanvases \cup {WidestCanvas}}

\* the longest data whose chunks all get an index byte, and one byte more
LongestData == TestData(255 * CHUNK_SIZE, 1)
OverlongData == TestData((255 * CHUNK_SIZE) + 1, 1)

PayloadInputs ==
    {TestData(n, seed) : n \in PayloadLengths, seed \in 1..MaxSeed}
        \cup PrintInputs \cup {LongestData, OverlongData}

Gen(data, is_print, at, index, out) ==
    [data |-> data, is_print |-> is_print, at |-> at, index |-> index, out |-> out]

NoPayload == Gen(<<>>, FALSE, "none", 0, <<>>)

InitPayloadVars ==
    pl \in {Gen(d, b, "start", 0, <<>>) : d \in PayloadInputs, b \in BOOLEAN}

\* the first next(): the header, with all of data when is_print is false
YieldHeader ==
    /\ pl.at = "start"
    /\ pl' = IF ~pl.is_print
             THEN [pl EXCEPT !.at = "tail",
                             !.out = <<PayloadHeader(pl.data) \o pl.data>>]
             ELSE [pl EXCEPT !.at = "loop", !.out = <<PayloadHeader(pl.data)>>]

\* a next() that runs one iteration of the chunk loop; bytearray.append
\* raises ValueError for an index byte above 255
YieldChunk ==
    /\ pl.at = "loop"
    /\ pl.index < RangeLen(Len(pl.data))
    /\ pl' = IF ChunkIndex(pl.index) > 255
             THEN [pl EXCEPT !.at = "raised"]
             ELSE [pl EXCEPT !.index = pl.index + 1,
                             !.out = Append(pl.out, PayloadChunk(pl.data, pl.index))]

\* a next() that finds the generator exhausted
StopIteration ==
    /\ \/ pl.at = "tail"
       \/ pl.at = "loop" /\ pl.index >= RangeLen(Len(pl.data))
    /\ pl' = [pl EXCEPT !.at = "done"]

(***************************************************************************)
(* Result.from_bytes called on one reply.                                  *)
(***************************************************************************)
\* replies of up to this many bytes are decoded
MaxReplyLen == 3

\* the byte values the decoded replies are made of
DecodeBytes == {0, 1, 2, 3, 4, 5, 6, 7, 8, 9, 26, 27, 82, 83, 255}

DecodeInputs ==
    UNION {[1..n -> DecodeBytes] : n \in 0..MaxReplyLen}

Decode(data, called, result) == [data |-> data, called |-> called, result |-> result]

NoDecode == Decode(<<>>, FALSE, Raised("none"))

InitDecodeVars == dec \in {Decode(d, FALSE, Raised("none")) : d \in DecodeInputs}

\* Result.from_bytes(data) is called and returns or raises
FromBytesCall ==
    /\ ~dec.called
    /\ dec' = [dec EXCEPT !.called = TRUE, !.result = FromBytes(dec.data)]

(***************************************************************************)
(* Specifications.                                                         *)
(***************************************************************************)
\* the print session of one Printer
Init == InitSession /\ InitCanvasVars /\ pl = NoPayload /\ dec = NoDecode

Next ==
    \/ Connect /\ UNCHANGED <<canvasVars, pl, dec>>
    \/ Disconnect /\ UNCHANGED <<canvasVars, pl, dec>>
    \/ (\E canvas \in SessionCanvases : PrintCall(canvas)) /\ UNCHANGED <<canvasVars, pl, dec>>
    \/ StartNotify /\ UNCHANGED <<canvasVars, pl, dec>>
    \/ WriteChunk /\ UNCHANGED <<canvasVars, pl, dec>>
    \/ TransportFails /\ UNCHANGED <<canvasVars, pl, dec>>
    \/ (\E data \in Replies : Notify(data)) /\ UNCHANGED <<canvasVars, pl, dec>>
    \/ Return /\ UNCHANGED <<canvasVars, pl, dec>>
    \/ Cancel /\ UNCHANGED <<canvasVars, pl, dec>>

Spec == Init /\ [][Next]_vars

\* one canvas under its operations
InitCanvas == InitSession /\ InitCanvasVars /\ pl = NoPayload /\ dec = NoDecode

NextCanvas ==
    \/ (\E x \in 0..(MaxX - 1), y \in Rows, color \in BOOLEAN : DoSetPixel(x, y, color))
            /\ UNCHANGED <<sessionVars, pl, dec>>
    \/ (\E x \in 0..MaxX, y \in Rows : DoGetPixel(x, y)) /\ UNCHANGED <<sessionVars, pl, dec>>
    \/ DoEmpty /\ UNCHANGED <<sessionVars, pl, dec>>
    \/ DoClear /\ UNCHANGED <<sessionVars, pl, dec>>
    \/ DoCopy /\ UNCHANGED <<sessionVars, pl, dec>>
    \/ DoRevert /\ UNCHANGED <<sessionVars, pl, dec>>
    \/ (\E factor \in StretchFactors : DoStretch(factor)) /\ UNCHANGED <<sessionVars, pl, dec>>
    \/ (\E l \in FillSides, r \in FillSides : DoFill(l, r)) /\ UNCHANGED <<sessionVars, pl, dec>>
    \/ (\E until \in 0..(MaxX + 1) : DoPad(until)) /\ UNCHANGED <<sessionVars, pl, dec>>

SpecCanvas == InitCanvas /\ [][NextCanvas]_vars

\* one run of the create_payload generator
InitPayload == InitSession /\ InitCanvasVars /\ InitPayloadVars /\ dec = NoDecode

NextPayload ==
    \/ YieldHeader /\ UNCHANGED <<sessionVars, canvasVars, dec>>
    \/ YieldChunk /\ UNCHANGED <<sessionVars, canvasVars, dec>>
    \/ StopIteration /\ UNCHANGED <<sessionVars, canvasVars, dec>>

SpecPayload == InitPayload /\ [][NextPayload]_vars

\* one call of Result.from_bytes
InitDecode == InitSession /\ InitCanvasVars /\ pl = NoPayload /\ InitDecodeVars

NextDecode == FromBytesCall /\ UNCHANGED <<sessionVars, canvasVars, pl>>

SpecDecode == InitDecode /\ [][NextDecode]_vars

(***************************************************************************)
(* Properties of the print session (Spec).                                 *)
(***************************************************************************)
\* the reply decodes: Result.from_bytes returns a Result for it
WellFormed(data) == FromBytes(data).ok

\* print is between its start_notify and its return, neither failed nor abandoned
JobRunning == pc \in {"write", "await_future"}

\* the notifications on which reply_get called future.set_result
SetResultCalls == {i \in 1..Len(handled) : handled[i] \in {"set_result", "InvalidStateError"}}

\* C1: of two well-formed notifications delivered in order during a job, the
\* first is discarded whatever its code and the future holds the decoded
\* Result of the second.
C1_FirstDiscardedSecondResolves ==
    (/\ pc \in {"write", "await_future", "returned"}
     /\ Len(delivered) >= 2
     /\ WellFormed(delivered[1])
     /\ WellFormed(delivered[2]))
    => (/\ handled[1] = "discarded"
        /\ future.state = "done"
        /\ future.result = FromBytes(delivered[2]).value)

\* C2: with two or more well-formed notifications delivered during a job,
\* future.set_result is called exactly once.
C2_FutureSetExactlyOnce ==
    (/\ JobRunning
     /\ Len(delivered) >= 2
     /\ \A i \in 1..Len(delivered) : WellFormed(delivered[i]))
    => Cardinality(SetResultCalls) = 1

\* C3: once print has exited (returned, raised, or abandoned by the caller)
\* no reply-notification subscription is active.
C3_NoSubscriptionAfterExit ==
    pc \in {"returned", "raised", "cancelled"} => ~subscribed

\* C4: a reply that is malformed or carries an unrecognized code, received
\* while the future is still pending, resolves the future with a failure.
C4_BadReplyFailsFuture ==
    \A i \in 1..Len(delivered) :
        (/\ JobRunning
         /\ ~WellFormed(delivered[i])
         /\ \A j \in 1..(i - 1) : handled[j] # "set_result")
        => future.state = "exception"

\* C5: no chunk is written, and the write loop is not entered, before the
\* reply subscription is active; print on a printer that is not connected
\* fails having subscribed to nothing and written nothing.
C5_SubscribedBeforeWrite ==
    /\ (written # <<>> \/ pc \in {"write", "await_future", "returned"}) => subscribed
    /\ outcome.error = "NotConnected"
        => (~subscribed /\ written = <<>> /\ pending = <<>> /\ future = NoFuture)

\* a connected print has written its first chunk
C5_Witness == is_connected /\ Len(written) = 1 /\ subscribed /\ pc = "write"

(***************************************************************************)
(* Properties of the canvas (SpecCanvas).                                  *)
(***************************************************************************)
\* C6: fill(0, 0) of a canvas reached by set_pixel, empty, clear and the
\* transforms equals the canvas under Canvas.__eq__.
C6_FillZeroIsIdentity ==
    used \subseteq {"set_pixel", "empty", "clear", "stretch", "fill", "pad", "revert"}
        => CanvasEq(Fill(buffer, 0, 0), buffer)

\* C7: stretch with factor 1 of a canvas reached by set_pixel calls alone
\* equals the canvas under Canvas.__eq__.
C7_StretchOneIsIdentity ==
    used \subseteq {"set_pixel"} => CanvasEq(Stretch(buffer, 1), buffer)

(***************************************************************************)
(* Properties of create_payload (SpecPayload).                             *)
(***************************************************************************)
\* the last n elements of s
LastN(s, n) == SubSeq(s, Len(s) - n + 1, Len(s))

\* the data bytes of the k-th yielded chunk (k >= 2) of n: the chunk without
\* its index byte and, for the last chunk only, without its two magic bytes
ChunkData(out, k) ==
    IF k = Len(out) THEN SubSeq(out[k], 2, Len(out[k]) - 2)
    ELSE SubSeq(out[k], 2, Len(out[k]))

\* the concatenation of the data bytes of chunks 2..k
RECURSIVE ConcatData(_, _)
ConcatData(out, k) ==
    IF k < 2 THEN <<>> ELSE ConcatData(out, k - 1) \o ChunkData(out, k)

\* the generator has been run to its end for a print payload
PrintPayloadDone == pl.at = "done" /\ pl.is_print

\* C8: a print payload of at most 500 bytes (also of none) is the 9-byte
\* header and exactly one indexed chunk, which ends with the magic bytes.
C8_SmallPayloadOneChunk ==
    (PrintPayloadDone /\ Len(pl.data) <= 500)
    => (/\ Len(pl.out) = 2
        /\ Len(pl.out[1]) = 9
        /\ LastN(pl.out[2], 2) = <<18, 52>>)

\* C9: for every data, once the generator has ended (exhausted or failed),
\* the chunks after the header, without their index bytes and without the
\* magic of the last one, concatenate to data; each carries at most 500
\* data bytes; the last chunk, and only the last, ends with the added magic.
C9_ChunksReproduceData ==
    pl.is_print /\ pl.at \in {"done", "raised"}
    => (/\ ConcatData(pl.out, Len(pl.out)) = pl.data
        /\ \A k \in 2..Len(pl.out) : Len(ChunkData(pl.out, k)) <= 500
        /\ Len(pl.out) >= 2 => LastN(pl.out[Len(pl.out)], 2) = <<18, 52>>)

\* C10: the chunk at position i (0-indexed, after the header) starts with
\* the index byte i when i < 27 and i + 1 otherwise; the index bytes
\* increase strictly and are never 27; for a payload of command_print every
\* index fits in one byte and the generator does not fail.
C10_IndexSkips27 ==
    pl.is_print
    => (/\ \A k \in 2..Len(pl.out) :
              /\ pl.out[k][1] = (IF k - 2 < 27 THEN k - 2 ELSE k - 1)
              /\ pl.out[k][1] # 27
              /\ pl.out[k][1] <= 255
              /\ k > 2 => pl.out[k][1] > pl.out[k - 1][1]
        /\ pl.data \in PrintInputs => pl.at # "raised")

\* the payload of the widest canvas has been generated: 66 indexed chunks
C10_Witness ==
    /\ PrintPayloadDone
    /\ pl.data = PrintDirectives(WidestCanvas)
    /\ Len(pl.out) = 67
    /\ pl.out[67][1] = 66

(***************************************************************************)
(* Properties of Result.from_bytes (SpecDecode).                           *)
(***************************************************************************)
\* C11: from_bytes fails unless the reply has at least 3 bytes, byte 0 is
\* 0x1B and byte 1 is 0x52; otherwise code 5 gives FAILED, code 1 gives
\* SUCCESS, a code in {0, 2, 3, 4, 6, 7} gives the member of that value and
\* any other code fails.
C11_FromBytesTable ==
    dec.called
    => LET d == dec.data
       IN IF Len(d) < 3 \/ d[1] # 27 \/ d[2] # 82 THEN ~dec.result.ok
          ELSE IF d[3] = 5 THEN dec.result.ok /\ dec.result.value = 2
          ELSE IF d[3] = 1 THEN dec.result.ok /\ dec.result.value = 0
          ELSE IF d[3] \in {0, 2, 3, 4, 6, 7}
               THEN dec.result.ok /\ dec.result.value = d[3]
          ELSE ~dec.result.ok

\* the reply 1B 52 05 has been decoded, to FAILED
C11_Witness ==
    dec.called /\ dec.data = <<27, 82, 5>> /\ dec.result.ok /\ dec.result.value = 2

(***************************************************************************)
(* Further properties of the canvas (SpecCanvas).                          *)
(***************************************************************************)
\* only set_pixel and get_pixel were called on the canvas
OnlyPixelCalls == used \subseteq {"set_pixel", "get_pixel"}

\* C12: on a canvas reached by set_pixel calls, get_pixel(x, y) is the color
\* of the set_pixel(x, y, color) just made; a pixel set_pixel was never
\* called on reads False, also past the end of the buffer; and get_pixel
\* leaves the bytes of the buffer, and so its length, as they were.
C12_SetThenGet ==
    OnlyPixelCalls
    => (/\ last.op = "set_pixel" => GetPixel(buffer, last.a, last.b) = last.color
        /\ \A x \in 0..MaxX, y \in 0..(Height - 1) :
              <<x, y>> \notin touched => ~GetPixel(buffer, x, y)
        /\ last.op = "get_pixel"
              => (/\ buffer = prev
                  /\ <<last.a, last.b>> \notin touched => ~last.color))

\* a pixel was set, cleared again, and then an unset pixel past the end of
\* the buffer was read
C12_Witness ==
    /\ OnlyPixelCalls
    /\ ops = 3
    /\ last.op = "get_pixel"
    /\ ByteOffset(last.a, last.b) >= Len(buffer)
    /\ <<0, 31>> \in touched
    /\ ~GetPixel(buffer, 0, 31)
    /\ Len(buffer) = 1

\* C13: empty() makes every pixel blank and leaves the byte length and the
\* width of the canvas as they were before the call.
C13_EmptyKeepsSize ==
    last.op = "empty"
    => (/\ \A x \in 0..MaxX, y \in 0..(Height - 1) : ~GetPixel(buffer, x, y)
        /\ ByteSize(buffer) = ByteSize(prev)
        /\ Width(buffer) = Width(prev))

\* C14: for a canvas C reached by set_pixel calls, every pixel (x, y) with
\* x < C.width of C.revert() is the negation of that pixel of C, also in a
\* last column whose bytes were only partly written.
C14_RevertFlipsEveryPixel ==
    used \subseteq {"set_pixel"}
    => \A x \in 0..(Width(buffer) - 1), y \in 0..(Height - 1) :
          GetPixel(Revert(buffer), x, y) = ~GetPixel(buffer, x, y)

\* C16, as stated: in every canvas reached by set_pixel, empty, clear,
\* stretch, fill, pad, revert and copy the byte length of the buffer is a
\* multiple of BYTES_PER_LINE.
C16_LengthMultipleOfLine ==
    used \subseteq {"set_pixel", "empty", "clear", "stretch", "fill", "pad",
                    "revert", "copy"}
    => ByteSize(buffer) % BYTES_PER_LINE = 0

\* C16, as amended: the byte length of the buffer is a multiple of
\* BYTES_PER_LINE in the canvas that clear() leaves and in the canvas that
\* stretch() returns, whatever the canvas they were applied to.
C16_ClearAndStretchFullColumns ==
    last.op \in {"clear", "stretch"} => ByteSize(buffer) % BYTES_PER_LINE = 0

\* stretch(2) was applied to a canvas whose only column is partly written
C16_Witness ==
    /\ last.op = "stretch"
    /\ last.a = 2
    /\ ByteSize(prev) = 1
    /\ ByteSize(buffer) = 2 * BYTES_PER_LINE

\* little-endian value of four bytes
FromBytes4(b) == b[1] + (256 * b[2]) + (65536 * b[3]) + (16777216 * b[4])

\* C17: for a canvas reached by set_pixel calls, the image bytes that follow
\* the 12-byte header of the PRINT_DATA directive of command_print are as
\* many as the declared width * declared height / 8, that is canvas.width * 4.
C17_PrintDataSelfConsistent ==
    used \subseteq {"set_pixel"}
    => LET d == DirectivePrint(GetImage(buffer), Width(buffer), Height, 1, 2)
           w == FromBytes4(SubSeq(d, 5, 8))
           h == FromBytes4(SubSeq(d, 9, 12))
       IN /\ Len(d) - 12 = (w * h) \div 8
          /\ Len(d) - 12 = Width(buffer) * BYTES_PER_LINE

(***************************************************************************)
(* Further properties of create_payload (SpecPayload).                     *)
(***************************************************************************)
\* C15: the first chunk create_payload yields begins with FF F0 12 34, the
\* length of data as 4 little-endian bytes and a checksum byte that is the
\* sum of the 8 bytes before it modulo 256; for is_print it is these 9
\* bytes alone, otherwise it is these 9 bytes followed by all of data, and
\* no other chunk is yielded.
C15_HeaderChunk ==
    pl.out # <<>>
    => LET c == pl.out[1]
       IN /\ Len(c) >= 9
          /\ SubSeq(c, 1, 4) = <<255, 240, 18, 52>>
          /\ \A i \in 5..8 : c[i] \in 0..255
          /\ FromBytes4(SubSeq(c, 5, 8)) = Len(pl.data)
          /\ c[9] = (c[1] + c[2] + c[3] + c[4] + c[5] + c[6] + c[7] + c[8]) % 256
          /\ pl.is_print => Len(c) = 9
          /\ ~pl.is_print => (/\ SubSeq(c, 10, Len(c)) = pl.data
                              /\ Len(pl.out) = 1)

\* a payload of 501 bytes that is not a print was yielded whole in one chunk
\* and the generator has ended
C15_Witness ==
    /\ ~pl.is_print
    /\ pl.at = "done"
    /\ Len(pl.data) = 501
    /\ Len(pl.out) = 1
    /\ Len(pl.out[1]) = 510

====
